---- MODULE Spec2Model ----
(***************************************************************************)
(* A model of the 2D packing framework (src/framework.py): the Box,        *)
(* Container and Corner entities, SolutionState.objective, the loader      *)
(* Data.read_data, and the placement heuristic that drives them.           *)
(*                                                                         *)
(* framework.py holds the entities, the objective and the loader.  The     *)
(* placement heuristic (corner bookkeeping and insertion) is not part of   *)
(* framework.py; it is modelled from sections 4.2 and 4.3 of the           *)
(* specification, and the definitions concerned say so.                    *)
(***************************************************************************)
EXTENDS Integers, Sequences, FiniteSets

\* ---------------------------------------------------------------- bounds
NumContainers == 2      \* containers of an instance
NumBoxes == 3           \* boxes of an instance the heuristic is run on
ApiBoxes == 1           \* boxes of an instance whose methods are called freely
MaxPref == 2            \* corner preferences range over 0..MaxPref
MaxLines == 5           \* lines of an input file

\* The kinds of container <<x_length, y_length>> and of box
\* <<x_length, y_length, weight>> the instances are made of.
ContainerKinds == {<<2, 2>>, <<3, 2>>}
BoxKinds == {<<1, 1, 1>>, <<2, 1, 2>>, <<1, 2, 2>>, <<3, 1, 3>>}

\* The position a caller of Box.pack passes.
CallPositions == {<<1, 2>>}

\* The lines input files are made of: a line is the tuple of its integers.
FileLines == {<<0>>, <<1>>, <<2>>, <<2, 2>>, <<1, 1, 1>>, <<2, 1, 2>>}

VARIABLES
    containers,     \* SolutionState.containers: sequence of Container objects
    boxes,          \* SolutionState.boxes: sequence of Box objects (an arena:
                    \* Container.boxes refers to a box by its position here)
    created,        \* the <<x_length, y_length, weight>> each box was created with
    eng,            \* position of the placement heuristic and its counters
    lastOp,         \* the call that produced the current state
    direct,         \* Box.pack or Box.unpack was called by a caller other than
                    \* the heuristic or Container.unpack since the entities
                    \* were last fresh
    file,           \* the lines of the input file of Data.read_data
    data            \* the Data object and the position of its read loop

entVars == <<containers, boxes, created, eng, lastOp, direct>>
loadVars == <<file, data>>
vars == <<containers, boxes, created, eng, lastOp, direct, file, data>>

\* ------------------------------------------------------------- entities
\* Corner.__init__
Corner(x, y) == [x |-> x, y |-> y]

\* Box.__init__
NewBox(id, x_length, y_length, weight) ==
    [id |-> id, x_length |-> x_length, y_length |-> y_length, weight |-> weight,
     packed |-> FALSE, container_id |-> -1,
     x_min |-> 0, x_delta |-> 0, y_min |-> 0, y_delta |-> 0,
     is_horizontal |-> TRUE]

\* Box.pack with the footprint never rotated.
BoxPackNoSwap(box, container_id, x_pos, y_pos, is_horizontal) ==
    [box EXCEPT !.container_id = container_id,
                !.x_min = x_pos,
                !.y_min = y_pos,
                !.x_delta = box.x_length,
                !.y_delta = box.y_length,
                !.is_horizontal = is_horizontal,
                !.packed = TRUE]

\* Box.pack with x_pos and y_pos exchanged.
BoxPackTransposed(box, container_id, x_pos, y_pos, is_horizontal) ==
    [box EXCEPT !.container_id = container_id,
                !.x_min = y_pos,
                !.y_min = x_pos,
                !.x_delta = IF is_horizontal THEN box.x_length ELSE box.y_length,
                !.y_delta = IF is_horizontal THEN box.y_length ELSE box.x_length,
                !.is_horizontal = is_horizontal,
                !.packed = TRUE]

\* Box.pack: records the placement, with no precondition checked.
BoxPack(box, container_id, x_pos, y_pos, is_horizontal) ==
    [box EXCEPT !.container_id = container_id,
                !.x_min = x_pos,
                !.y_min = y_pos,
                !.x_delta = IF is_horizontal THEN box.x_length ELSE box.y_length,
                !.y_delta = IF is_horizontal THEN box.y_length ELSE box.x_length,
                !.is_horizontal = is_horizontal,
                !.packed = TRUE]

\* Box.unpack that leaves the position in place.
BoxUnpackKeepsPosition(box) ==
    [box EXCEPT !.packed = FALSE, !.container_id = -1,
                !.x_delta = 0, !.y_delta = 0, !.is_horizontal = TRUE]

\* Box.unpack
BoxUnpack(box) ==
    [box EXCEPT !.packed = FALSE, !.container_id = -1,
                !.x_min = 0, !.x_delta = 0, !.y_min = 0, !.y_delta = 0,
                !.is_horizontal = TRUE]

\* Container.__init__: one corner at the origin, no boxes.
NewContainer(id, x_length, y_length) ==
    [id |-> id, x_length |-> x_length, y_length |-> y_length,
     corners |-> <<Corner(0, 0)>>, boxes |-> <<>>]

Range(s) == {s[i] : i \in DOMAIN s}

\* Container.unpack that appends the origin corner to the corners it has.
ContainerUnpackAppendsOrigin(c) ==
    [c EXCEPT !.corners = Append(c.corners, Corner(0, 0)), !.boxes = <<>>]

\* Container.unpack, the container's side: corners reset, box list emptied.
ContainerUnpackSelf(c) ==
    [c EXCEPT !.corners = <<Corner(0, 0)>>, !.boxes = <<>>]

\* Container.unpack whose loop stops after the first box.
ContainerUnpackFirstBox(bs, owned) ==
    [b \in DOMAIN bs |->
        IF owned # <<>> /\ b = Head(owned) THEN BoxUnpack(bs[b]) ELSE bs[b]]

\* Container.unpack, the loop "for box in self.boxes: box.unpack()".
ContainerUnpackBoxes(bs, owned) ==
    [b \in DOMAIN bs |-> IF b \in Range(owned) THEN BoxUnpack(bs[b]) ELSE bs[b]]

\* SolutionState.objective: sum of box.weight for container in containers
\* for box in container.boxes.
RECURSIVE SumWeights(_, _)
SumWeights(bs, owned) ==
    IF owned = <<>> THEN 0
    ELSE bs[Head(owned)].weight + SumWeights(bs, Tail(owned))

\* An objective that reads the first container only.
ObjectiveFirstOnly(cs, bs) ==
    IF cs = <<>> THEN 0 ELSE SumWeights(bs, Head(cs).boxes)

RECURSIVE ObjectiveFrom(_, _)
ObjectiveFrom(cs, bs) ==
    IF cs = <<>> THEN 0
    ELSE SumWeights(bs, Head(cs).boxes) + ObjectiveFrom(Tail(cs), bs)

Objective == ObjectiveFrom(containers, boxes)

\* ------------------------------------------- placement heuristic (4.2, 4.3)
\* Two placed rectangles share interior area (touching edges do not).
Overlaps(x, y, dx, dy, b) ==
    /\ x < b.x_min + b.x_delta
    /\ b.x_min < x + dx
    /\ y < b.y_min + b.y_delta
    /\ b.y_min < y + dy

\* Fit check of section 4.3 for box at corner in container c, orientation h.
Fits(c, bs, box, corner, h) ==
    LET dx == IF h THEN box.x_length ELSE box.y_length
        dy == IF h THEN box.y_length ELSE box.x_length
    IN  /\ corner.x >= 0
        /\ corner.y >= 0
        /\ corner.x + dx <= c.x_length
        /\ corner.y + dy <= c.y_length
        /\ \A i \in DOMAIN c.boxes :
              ~Overlaps(corner.x, corner.y, dx, dy, bs[c.boxes[i]])

RemoveAt(s, i) == [j \in 1..(Len(s) - 1) |-> IF j < i THEN s[j] ELSE s[j + 1]]

\* A candidate corner is inserted when it lies within the container and no
\* corner with the same coordinates is present.
AddCorner(c, corners, cand) ==
    IF /\ cand.x <= c.x_length
       /\ cand.y <= c.y_length
       /\ \A i \in DOMAIN corners : corners[i] # cand
    THEN Append(corners, cand)
    ELSE corners

\* Corner Ledger update of section 4.2 after a placement of footprint
\* (dx, dy) at the corner at position idx.
UpdateLedger(c, idx, dx, dy) ==
    LET corner == c.corners[idx]
        rest == RemoveAt(c.corners, idx)
        above == AddCorner(c, rest, Corner(corner.x, corner.y + dy))
    IN  AddCorner(c, above, Corner(corner.x + dx, corner.y))

\* The candidate rectangle lies within the container.
InContainer(c, box, corner, h) ==
    LET dx == IF h THEN box.x_length ELSE box.y_length
        dy == IF h THEN box.y_length ELSE box.x_length
    IN  corner.x + dx <= c.x_length /\ corner.y + dy <= c.y_length

RECURSIVE Scan(_, _, _, _, _, _, _, _, _)

\* A scan that tries the first orientation a second time before it gives a
\* container up.
ScanRetry(cs, bs, k, ci, p, d, visits, checks, blocked) ==
    IF ci > Len(cs)
    THEN [at |-> 0, idx |-> 0, h |-> d, visits |-> visits, checks |-> checks,
          blocked |-> blocked]
    ELSE LET c == cs[ci]
             idx == (p % Len(c.corners)) + 1
             corner == c.corners[idx]
         IN  IF Fits(c, bs, bs[k], corner, d)
             THEN [at |-> ci, idx |-> idx, h |-> d,
                   visits |-> visits + 1, checks |-> checks + 1,
                   blocked |-> blocked]
             ELSE IF Fits(c, bs, bs[k], corner, ~d)
             THEN [at |-> ci, idx |-> idx, h |-> ~d,
                   visits |-> visits + 1, checks |-> checks + 2,
                   blocked |-> blocked]
             ELSE Scan(cs, bs, k, ci + 1, p, d, visits + 1, checks + 3, blocked)

\* Steps 1.a.i - 1.a.v for box k from container position ci onwards: the
\* container that admits the box (0 when none does), the corner position and
\* orientation chosen, the number of containers visited and of fit checks
\* made on the way, and whether a fit check failed on an overlap alone.
Scan(cs, bs, k, ci, p, d, visits, checks, blocked) ==
    IF ci > Len(cs)
    THEN [at |-> 0, idx |-> 0, h |-> d, visits |-> visits, checks |-> checks,
          blocked |-> blocked]
    ELSE LET c == cs[ci]
             n == Len(c.corners)
         IN  IF n = 0
             THEN Scan(cs, bs, k, ci + 1, p, d, visits + 1, checks, blocked)
             ELSE LET idx == (p % n) + 1
                      corner == c.corners[idx]
                  IN  IF Fits(c, bs, bs[k], corner, d)
                      THEN [at |-> ci, idx |-> idx, h |-> d,
                            visits |-> visits + 1, checks |-> checks + 1,
                            blocked |-> blocked]
                      ELSE IF Fits(c, bs, bs[k], corner, ~d)
                      THEN [at |-> ci, idx |-> idx, h |-> ~d,
                            visits |-> visits + 1, checks |-> checks + 2,
                            blocked |-> blocked \/ InContainer(c, bs[k], corner, d)]
                      ELSE Scan(cs, bs, k, ci + 1, p, d, visits + 1, checks + 2,
                                blocked \/ InContainer(c, bs[k], corner, d)
                                        \/ InContainer(c, bs[k], corner, ~d))

\* ----------------------------------------------------------------- Init
Fresh ==
    /\ \A b \in DOMAIN boxes :
          boxes[b] = NewBox(boxes[b].id, boxes[b].x_length, boxes[b].y_length,
                            boxes[b].weight)
    /\ \A ci \in DOMAIN containers :
          containers[ci].corners = <<Corner(0, 0)>> /\ containers[ci].boxes = <<>>

Idle == [pc |-> "idle", k |-> 0, visits |-> 0, checks |-> 0, attempted |-> <<>>]

\* Containers and boxes take their ids in creation order, from 0, as
\* Data.read_data numbers them.
NewData ==
    [n_containers |-> 0, containers |-> <<>>, n_boxes |-> 0, boxes |-> <<>>,
     max_weight |-> 0, index |-> 0, status |-> "reading"]

InitWith(nb) ==
    /\ \E kind \in [1..NumContainers -> ContainerKinds] :
          containers = [ci \in 1..NumContainers |->
                           NewContainer(ci - 1, kind[ci][1], kind[ci][2])]
    /\ created \in [1..nb -> BoxKinds]
    /\ boxes = [b \in 1..nb |->
                   NewBox(b - 1, created[b][1], created[b][2], created[b][3])]
    /\ eng = Idle
    /\ lastOp = [op |-> "new"]
    /\ direct = FALSE
    /\ file = <<>>
    /\ data = NewData

Init == InitWith(NumBoxes)

\* -------------------------------------------------------------- actions
\* The heuristic is started on freshly reset entities.
EngineStart ==
    /\ eng.pc = "idle"
    /\ Fresh
    /\ eng' = [Idle EXCEPT !.pc = "run", !.k = 1]
    /\ lastOp' = [op |-> "start"]
    /\ direct' = FALSE
    /\ UNCHANGED <<containers, boxes, created>>
    /\ UNCHANGED loadVars

\* The state after box k is placed as the scan result r says.
Placed(k, r) ==
    LET c == containers[r.at]
        corner == c.corners[r.idx]
    IN  \E packed \in {BoxPack(boxes[k], c.id, corner.x, corner.y, r.h)} :
           /\ boxes' = [boxes EXCEPT ![k] = packed]
           /\ containers' = [containers EXCEPT ![r.at] =
                 [c EXCEPT !.boxes = Append(c.boxes, k),
                           !.corners = UpdateLedger(c, r.idx,
                                           packed.x_delta, packed.y_delta)]]

\* Step 1 for the next box: corner_preferences[k] = p, direction_preferences[k] = d.
EngineBox ==
    /\ eng.pc = "run"
    /\ \E p \in 0..MaxPref, d \in BOOLEAN :
       \E r \in {Scan(containers, boxes, eng.k, 1, p, d, 0, 0, FALSE)} :
          /\ IF r.at = 0
             THEN UNCHANGED <<containers, boxes>>
             ELSE Placed(eng.k, r)
          /\ eng' = [pc |-> IF eng.k = Len(boxes) THEN "idle" ELSE "run",
                     k |-> eng.k + 1,
                     visits |-> eng.visits + r.visits,
                     checks |-> eng.checks + r.checks,
                     attempted |-> Append(eng.attempted, eng.k)]
          /\ lastOp' = [op |-> "place", box |-> eng.k, at |-> r.at, idx |-> r.idx,
                        checks |-> r.checks,
                        blocked |-> r.blocked,
                        prev |-> IF r.at = 0 THEN <<>> ELSE containers[r.at].corners]
    /\ UNCHANGED <<created, direct>>
    /\ UNCHANGED loadVars

\* Container.unpack
ContainerUnpack(ci) ==
    /\ eng.pc = "idle"
    /\ containers' = [containers EXCEPT ![ci] = ContainerUnpackSelf(containers[ci])]
    /\ boxes' = ContainerUnpackBoxes(boxes, containers[ci].boxes)
    /\ lastOp' = [op |-> "Container.unpack", ci |-> ci, owned |-> containers[ci].boxes]
    /\ UNCHANGED <<created, eng, direct>>
    /\ UNCHANGED loadVars

Next ==
    \/ EngineStart
    \/ EngineBox
    \/ \E ci \in DOMAIN containers : ContainerUnpack(ci)

\* The heuristic and Container.unpack on instances of NumBoxes boxes.
Spec == Init /\ [][Next]_vars

\* ---------------------------------------------------- calls on the boxes
\* A caller calls Box.pack on a box of the state.
BoxPackCall(b) ==
    /\ eng.pc = "idle"
    /\ \E ci \in DOMAIN containers, pos \in CallPositions, h \in BOOLEAN :
          boxes' = [boxes EXCEPT ![b] =
                       BoxPack(boxes[b], containers[ci].id, pos[1], pos[2], h)]
    /\ lastOp' = [op |-> "Box.pack", box |-> b, wasPacked |-> boxes[b].packed]
    /\ direct' = TRUE
    /\ UNCHANGED <<containers, created, eng>>
    /\ UNCHANGED loadVars

\* A caller calls Box.unpack on a box of the state.
BoxUnpackCall(b) ==
    /\ eng.pc = "idle"
    /\ boxes' = [boxes EXCEPT ![b] = BoxUnpack(boxes[b])]
    /\ lastOp' = [op |-> "Box.unpack", box |-> b, wasPacked |-> boxes[b].packed]
    /\ direct' = TRUE
    /\ UNCHANGED <<containers, created, eng>>
    /\ UNCHANGED loadVars

InitAPI == InitWith(ApiBoxes)

NextAPI ==
    \/ EngineStart
    \/ EngineBox
    \/ \E ci \in DOMAIN containers : ContainerUnpack(ci)
    \/ \E b \in DOMAIN boxes : BoxPackCall(b)
    \/ \E b \in DOMAIN boxes : BoxUnpackCall(b)

\* Every operation of the entities, in any order, on instances of ApiBoxes boxes.
SpecAPI == InitAPI /\ [][NextAPI]_vars

\* -------------------------------------------------------- Data.read_data
Files == UNION {[1..n -> FileLines] : n \in 0..MaxLines}

\* The body of the loop of Data.read_data for the line at position index.
\* int(line.strip()) raises ValueError unless the line is one integer; the
\* assertions want two and three integers.
ReadLineOf(d, line) ==
    LET index == d.index
        next == [d EXCEPT !.index = index + 1]
        failed == [d EXCEPT !.status = "error"]
    IN  IF index = 0
        THEN IF Len(line) # 1 THEN failed
             ELSE [next EXCEPT !.n_containers = line[1]]
        ELSE IF 1 <= index /\ index <= d.n_containers
        THEN IF Len(line) # 2 THEN failed
             ELSE [next EXCEPT !.containers =
                      Append(d.containers, NewContainer(index - 1, line[1], line[2]))]
        ELSE IF index = d.n_containers + 1
        THEN IF Len(line) # 1 THEN failed
             ELSE [next EXCEPT !.n_boxes = line[1]]
        ELSE IF d.n_containers + 1 < index /\ index <= d.n_containers + 1 + d.n_boxes
        THEN IF Len(line) # 3 THEN failed
             ELSE [next EXCEPT
                      !.boxes = Append(d.boxes,
                          NewBox(index - d.n_containers - 2, line[1], line[2], line[3])),
                      !.max_weight = IF line[3] >= d.max_weight
                                     THEN line[3] ELSE d.max_weight]
        ELSE failed

InitLoad ==
    /\ file \in Files
    /\ data = NewData
    /\ containers = <<>>
    /\ boxes = <<>>
    /\ created = <<>>
    /\ eng = Idle
    /\ lastOp = [op |-> "new"]
    /\ direct = FALSE

\* One iteration of the loop.
ReadLine ==
    /\ data.status = "reading"
    /\ data.index < Len(file)
    /\ data' = ReadLineOf(data, file[data.index + 1])
    /\ UNCHANGED file
    /\ UNCHANGED entVars

\* The loop ends and read_data returns.
ReadReturn ==
    /\ data.status = "reading"
    /\ data.index = Len(file)
    /\ data' = [data EXCEPT !.status = "loaded"]
    /\ UNCHANGED file
    /\ UNCHANGED entVars

NextLoad ==
    \/ ReadLine
    \/ ReadReturn

SpecLoad == InitLoad /\ [][NextLoad]_vars

\* =============================================================== claims
Boxes == DOMAIN boxes
Containers == DOMAIN containers

\* The unit squares a placed box covers.
Cells(b) ==
    {<<x, y>> : x \in b.x_min..(b.x_min + b.x_delta - 1),
                y \in b.y_min..(b.y_min + b.y_delta - 1)}

\* C1: no two distinct boxes owned by the same container share interior
\* area, in every state the heuristic reaches from fresh entities.
C1_NoOverlap ==
    \A ci \in Containers :
       \A i, j \in DOMAIN containers[ci].boxes :
          i # j => Cells(boxes[containers[ci].boxes[i]])
                      \cap Cells(boxes[containers[ci].boxes[j]]) = {}

\* A third box went into a container after a candidate rectangle that lay
\* within the container was refused for overlapping a box.
C1_Witness ==
    /\ lastOp.op = "place"
    /\ lastOp.at # 0
    /\ lastOp.blocked
    /\ Len(containers[lastOp.at].boxes) >= 3

\* C2: every packed box lies within the container its container_id names.
C2_InBounds ==
    \A b \in Boxes :
       boxes[b].packed =>
          \E ci \in Containers :
             /\ containers[ci].id = boxes[b].container_id
             /\ boxes[b].x_min >= 0
             /\ boxes[b].y_min >= 0
             /\ boxes[b].x_min + boxes[b].x_delta <= containers[ci].x_length
             /\ boxes[b].y_min + boxes[b].y_delta <= containers[ci].y_length

\* A box was placed rotated, away from the left edge, in the second container.
C2_Witness ==
    \E b \in Boxes :
       /\ boxes[b].packed
       /\ ~boxes[b].is_horizontal
       /\ boxes[b].x_min > 0
       /\ boxes[b].container_id = containers[2].id

RECURSIVE PackedWeightUpTo(_)
PackedWeightUpTo(n) ==
    IF n = 0 THEN 0
    ELSE (IF boxes[n].packed THEN boxes[n].weight ELSE 0) + PackedWeightUpTo(n - 1)

\* The sum of weight over the boxes whose packed flag is true.
PackedWeight == PackedWeightUpTo(Len(boxes))

C4_UnpackResets ==
    lastOp.op = "Container.unpack" =>
       /\ containers[lastOp.ci].corners = <<Corner(0, 0)>>
       /\ containers[lastOp.ci].boxes = <<>>
       /\ \A i \in DOMAIN lastOp.owned :
             /\ ~boxes[lastOp.owned[i]].packed
             /\ boxes[lastOp.owned[i]].container_id = -1

\* A container that owned two boxes or more was unpacked.
C4_Witness == lastOp.op = "Container.unpack" /\ Len(lastOp.owned) >= 2

\* C5: a box whose packed flag is false has container_id -1 and its
\* placement fields at their defaults, so that Box.unpack leaves it as it is.
C5_UnpackedDefaults ==
    \A b \in Boxes :
       ~boxes[b].packed =>
          /\ boxes[b].container_id = -1
          /\ boxes[b].x_min = 0
          /\ boxes[b].y_min = 0
          /\ boxes[b].x_delta = 0
          /\ boxes[b].y_delta = 0
          /\ boxes[b].is_horizontal = TRUE
          /\ BoxUnpack(boxes[b]) = boxes[b]

\* A packed box was unpacked by a call of Box.unpack.
C5_Witness == lastOp.op = "Box.unpack" /\ lastOp.wasPacked

\* C6: a packed box has its footprint as is_horizontal says, and no box's
\* id, x_length, y_length or weight differs from what it was created with.
C6_Orientation ==
    \A b \in Boxes :
       /\ boxes[b].packed =>
             IF boxes[b].is_horizontal
             THEN /\ boxes[b].x_delta = boxes[b].x_length
                  /\ boxes[b].y_delta = boxes[b].y_length
             ELSE /\ boxes[b].x_delta = boxes[b].y_length
                  /\ boxes[b].y_delta = boxes[b].x_length
       /\ boxes[b].id = b - 1
       /\ <<boxes[b].x_length, boxes[b].y_length, boxes[b].weight>> = created[b]

\* A box that is not square is packed rotated.
C6_Witness ==
    \E b \in Boxes :
       /\ boxes[b].packed
       /\ ~boxes[b].is_horizontal
       /\ boxes[b].x_length # boxes[b].y_length

\* The ledger the claim describes after box b went to a corner of container
\* c whose ledger was prev: prev without the corner, then the corner above
\* and the corner to the right, each if within c and not present.
LedgerAfter(c, prev, b) ==
    LET kept == SelectSeq(prev, LAMBDA q : q # Corner(b.x_min, b.y_min))
        up == Corner(b.x_min, b.y_min + b.y_delta)
        right == Corner(b.x_min + b.x_delta, b.y_min)
        within(q) == q.x <= c.x_length /\ q.y <= c.y_length
        withUp == IF within(up) /\ up \notin Range(kept)
                  THEN kept \o <<up>> ELSE kept
    IN  IF within(right) /\ right \notin Range(withUp)
        THEN withUp \o <<right>> ELSE withUp

\* C7: a placement turns the ledger into LedgerAfter, and no ledger holds
\* two corners with equal coordinates or a corner outside its container.
C7_Ledger ==
    /\ (lastOp.op = "place" /\ lastOp.at # 0) =>
          containers[lastOp.at].corners =
             LedgerAfter(containers[lastOp.at], lastOp.prev, boxes[lastOp.box])
    /\ \A ci \in Containers :
          LET cs == containers[ci].corners
          IN  /\ \A i, j \in DOMAIN cs : cs[i] = cs[j] => i = j
              /\ \A i \in DOMAIN cs :
                    /\ 0 <= cs[i].x /\ cs[i].x <= containers[ci].x_length
                    /\ 0 <= cs[i].y /\ cs[i].y <= containers[ci].y_length

\* A placement whose candidate corner was discarded as a duplicate: the
\* ledger is as long as before.
C7_Witness ==
    /\ lastOp.op = "place"
    /\ lastOp.at # 0
    /\ Len(lastOp.prev) >= 3
    /\ Len(containers[lastOp.at].corners) = Len(lastOp.prev)

\* C8: read_data returns normally only when the file has 2 + N + M lines,
\* with N containers of ids 0..N-1 and M boxes of ids 0..M-1.
C8_LineCountChecked ==
    data.status = "loaded" =>
       /\ Len(file) = 2 + data.n_containers + data.n_boxes
       /\ Len(data.containers) = data.n_containers
       /\ Len(data.boxes) = data.n_boxes
       /\ \A i \in DOMAIN data.containers : data.containers[i].id = i - 1
       /\ \A i \in DOMAIN data.boxes : data.boxes[i].id = i - 1

\* C9: a call of Box.pack on a packed box leaves the box as it was.
C9_RepackRejected ==
    [][(lastOp'.op = "Box.pack" /\ lastOp'.wasPacked)
          => boxes'[lastOp'.box] = boxes[lastOp'.box]]_vars

\* C10 as stated: at most |boxes| x |containers| fit checks in a run.
C10_ChecksWithinPairs == eng.checks <= Len(boxes) * Len(containers)

\* C10 amended: a run visits each box once, in order, and stops after the
\* last; it visits at most |boxes| x |containers| (box, container) pairs and
\* makes at most two fit checks per pair.
C10_RunBounded ==
    /\ eng.attempted = [i \in 1..Len(eng.attempted) |-> i]
    /\ Len(eng.attempted) <= Len(boxes)
    /\ eng.pc = "run" => eng.k = Len(eng.attempted) + 1 /\ eng.k <= Len(boxes)
    /\ (eng.pc = "idle" /\ eng.k > 0) => Len(eng.attempted) = Len(boxes)
    /\ eng.visits <= Len(eng.attempted) * Len(containers)
    /\ eng.checks <= 2 * eng.visits

\* A finished run in which no box fitted anywhere: two fit checks for
\* every box in every container.
C10_Witness ==
    /\ eng.pc = "idle"
    /\ Len(eng.attempted) = Len(boxes)
    /\ eng.checks = 2 * Len(boxes) * Len(containers)
====
